---- MODULE Spec2Model ----
(***************************************************************************)
(* The WebSocket hub of lessgo (package websocket in                        *)
(* src/internal/core/context/context.go): one Hub goroutine (Hub.Run), one *)
(* serveWs call per accepted connection, and a readPump / writePump pair   *)
(* per transport.  The three hub channels (register, unregister,           *)
(* broadcast) are unbuffered, so a send on one of them is a rendezvous     *)
(* with the hub sitting in its select; Client.send is a buffered channel.  *)
(* A panic in any goroutine is not recovered and ends the process.         *)
(*                                                                         *)
(* Client objects are numbered 1, 2, ... in the order serveWs allocates    *)
(* them; the uuid of a Client is its number.  The transports of one Client *)
(* (the first connection and its reconnections) are numbered 1, 2, ...; a  *)
(* pump is named by <<client, transport>>.                                 *)
(***************************************************************************)
EXTENDS Integers, Sequences, FiniteSets, TLC

\* ---------------------------------------------------------------- bounds
MaxEvents == 5      \* what the peers do: connections made, frames sent, transports ended
SendCap   == 1      \* capacity of Client.send in the model (256 in the source)
MaxAdds   == 103    \* messages added to one backlog in SpecBacklog
MaxPeers  == 2      \* connections registered at the start of SpecRooms
MaxTasks   == 3     \* tasks added to a TaskManager
MaxWorkers == 2     \* workerCount of a TaskManager

\* ------------------------------------------------------ program constants
maxUndeliveredMsg == 100

Room   == {"lobby"}
Body   == {"hello"}
Name   == {"root", "guest"}
NoBody == "<none>"
NoMsg  == "<nil>"

\* the five wire formats readPump tells apart; body = NoBody is a command
\* frame without the space that separates the body
Frame ==
    [prefix : {"join_room:", "leave_room:"}, arg : Room, body : {NoBody}]
    \cup [prefix : {"room_message:"}, arg : Room, body : Body \cup {NoBody}]
    \cup [prefix : {"private_message:"}, arg : Name, body : Body \cup {NoBody}]
    \cup [prefix : {""}, arg : {""}, body : Body]

VARIABLES
    clients,         \* Hub.clients: the identities in the connection table
    rooms,           \* Hub.rooms: room name -> set of Client objects
    send,            \* send[c]: contents of the buffered channel Client.send
    closed,          \* closed[c]: Client.send has been closed
    undeliveredMsg,  \* undeliveredMsg[c]: Client.undeliveredMsg
    conn,            \* conn[c]: Client.conn, the number of the transport bound
    serve,           \* serve[c]: the serveWs call for c, see IdleServe
    alive,           \* alive[<<c, g>>]: transport g of c is usable
    readers,         \* readers[<<c, g>>]: the readPump goroutine started for transport g
    writers,         \* writers[<<c, g>>]: the writePump goroutine started for transport g
    hub,             \* Hub.Run: position, and the range loop of the broadcast case
    panicked,        \* "none", or the site of the unrecovered panic
    nEvents,         \* connections, frames and transport failures so far
    nAdded,          \* messages added so far (SpecBacklog)
    held,            \* held[<<c, g>>]: the message writePump has received and not yet written
    log,             \* history, kept when log.on: log.sent[c] is every payload put on
                     \* Client.send and log.wire[c] every payload written to a
                     \* transport of c, both in order
    tm,              \* TaskManager: tasks (the kind of each task added), mode, workerCount
    ctx,             \* the context passed to Run: has a deadline, is done
    run,             \* the goroutine that calls TaskManager.Run: position, loop index
    worker,          \* worker[w]: goroutine w of WorkerPool.Run: position, task, result
    collector,       \* the goroutine that ranges over pool.Results(): position, result
    pool,            \* WorkerPool: taskChan and resultChan are closed
    errChan,         \* errChan of runParallel: buffer and closed
    results,         \* the results slice of runParallel / runSequential
    outcome,         \* outcome[i]: the error task i returned, Nil without error,
                     \* NotRun while Execute has not returned
    ret,             \* what Run returned, see NoReturn
    taskPanic        \* "none", or the site of the unrecovered panic of Run's goroutines

hubVars == <<clients, rooms, send, closed, undeliveredMsg, conn, serve, alive,
             readers, writers, hub, panicked, nEvents, nAdded, held, log>>

taskVars == <<tm, ctx, run, worker, collector, pool, errChan, results, outcome,
              ret, taskPanic>>

vars == <<hubVars, taskVars>>

\* --------------------------------------------------------------- helpers
\* the Client objects allocated so far
Client == DOMAIN conn

\* the transports accepted so far
Transport == DOMAIN alive

\* the pumps started so far
Pump == DOMAIN readers

\* every order a Go range over a map may visit the set S in
Orders(S) ==
    {s \in [1..Cardinality(S) -> S] :
        \A i, j \in 1..Cardinality(S) : i # j => s[i] # s[j]}

ClientName(c) == "root"

\* a readPump: where it is, the frame body or confirmation it is about to
\* send, the room or receiver of the frame, and what its range loop over
\* the room or the table has left (the head is the entry it is sending to)
Reading == [pc |-> "read", msg |-> NoMsg, arg |-> "", todo |-> <<>>]

\* a serveWs call: todo is what the range loop of sendUndeliveredMsg has
\* left to send and replayed what it has sent; replayed stays after the call
\* returns, until the next call for the same client
IdleServe == [pc |-> "idle", todo |-> <<>>, replayed |-> <<>>]

IdleHub == [pc |-> "select", todo |-> <<>>, msg |-> NoMsg]

Running == panicked = "none"

\* the history after a Client object is allocated
LogNew ==
    IF log.on
    THEN [log EXCEPT !.sent = Append(@, <<>>), !.wire = Append(@, <<>>)]
    ELSE log

\* the history after c.send <- m
LogSent(c, m) ==
    IF log.on THEN [log EXCEPT !.sent[c] = Append(@, m)] ELSE log

\* the history after the payloads ms went out on a transport of c
LogWire(c, ms) ==
    IF log.on THEN [log EXCEPT !.wire[c] = @ \o ms] ELSE log

\* addUndeliveredMsg with the length test off by one (> for >=)
addUndeliveredMsgOffByOne(q, message) ==
    LET kept == IF Len(q) > maxUndeliveredMsg THEN Tail(q) ELSE q
    IN  Append(kept, message)

\* Client.addUndeliveredMsg
addUndeliveredMsg(q, message) ==
    LET kept == IF Len(q) >= maxUndeliveredMsg THEN Tail(q) ELSE q
    IN  Append(kept, message)

\* Hub.createRoom
createRoom(rs, name) ==
    IF name \in DOMAIN rs THEN rs
    ELSE [r \in DOMAIN rs \cup {name} |-> IF r = name THEN {} ELSE rs[r]]

\* Hub.joinRoom
joinRoom(rs, client, room) ==
    IF room \in DOMAIN rs
    THEN [rs EXCEPT ![room] = rs[room] \cup {client}]
    ELSE rs

\* Hub.HandleJoinRoom
HandleJoinRoom(rs, client, roomName) ==
    joinRoom(createRoom(rs, roomName), client, roomName)

\* handleLeaveRoom that keeps a room whose last member has left
handleLeaveRoomKeepsEmpty(rs, client, room) ==
    IF room \in DOMAIN rs
    THEN [rs EXCEPT ![room] = rs[room] \ {client}]
    ELSE rs

\* handleLeaveRoom that removes the room whoever asks to leave it
handleLeaveRoomDropsRoom(rs, client, room) ==
    IF room \in DOMAIN rs
    THEN [r \in DOMAIN rs \ {room} |-> rs[r]]
    ELSE rs

\* Hub.handleLeaveRoom
handleLeaveRoom(rs, client, room) ==
    IF room \in DOMAIN rs
    THEN LET left == rs[room] \ {client}
         IN  IF left = {}
             THEN [r \in DOMAIN rs \ {room} |-> rs[r]]
             ELSE [rs EXCEPT ![room] = left]
    ELSE rs

\* ------------------------------------------------ TaskManager, helpers
Nil              == "nil"
NotRun           == "not run"
DeadlineExceeded == "context.DeadlineExceeded"

\* the result of the i-th task added, and the error of a failing one
Result(i)  == "result" \o ToString(i)
TaskErr(i) == "error" \o ToString(i)

\* the task functions: one that returns its result unless the context is
\* done first, then ctx.Err(), and one that returns its error at once
TaskKind == {"delayed", "error"}

\* Task.Execute(ctx) of task i: what t.fn(ctx) returns when the context is
\* done or not at the moment the task function returns
Execute(i, ctxDone) ==
    IF tm.tasks[i] = "error"
    THEN [index |-> i, output |-> Nil, err |-> TaskErr(i)]
    ELSE IF ctxDone
         THEN [index |-> i, output |-> Nil, err |-> DeadlineExceeded]
         ELSE [index |-> i, output |-> Result(i), err |-> Nil]

NoResult == [index |-> 0, output |-> Nil, err |-> Nil]
NoReturn == [returned |-> FALSE, nilResults |-> TRUE, results |-> <<>>, err |-> Nil]

\* no TaskManager has been built: the hub runs on its own
NoTaskManager ==
    /\ tm = [tasks |-> <<>>, mode |-> "Parallel", workerCount |-> 1]
    /\ ctx = [deadline |-> FALSE, done |-> FALSE]
    /\ run = [pc |-> "idle", i |-> 0]
    /\ worker = <<>>
    /\ collector = [pc |-> "none", res |-> NoResult]
    /\ pool = [taskChanClosed |-> FALSE, resultChanClosed |-> FALSE]
    /\ errChan = [buf |-> <<>>, closed |-> FALSE]
    /\ results = <<>>
    /\ outcome = <<>>
    /\ ret = NoReturn
    /\ taskPanic = "none"

\* NewWsServer: the hub with empty maps, no connection accepted yet
Init ==
    /\ clients = {}
    /\ rooms = [r \in {} |-> {}]
    /\ send = <<>>
    /\ closed = <<>>
    /\ undeliveredMsg = <<>>
    /\ conn = <<>>
    /\ serve = <<>>
    /\ alive = [p \in {} |-> TRUE]
    /\ readers = [p \in {} |-> Reading]
    /\ writers = [p \in {} |-> "run"]
    /\ hub = IdleHub
    /\ panicked = "none"
    /\ nEvents = 0
    /\ nAdded = 0
    /\ held = [p \in {} |-> NoMsg]
    /\ log = [on |-> FALSE, sent |-> <<>>, wire |-> <<>>]
    /\ NoTaskManager

\* ---------------------------------------------------------------- serveWs
\* serveWs, else branch: client_id is empty or not in the table; a fresh
\* Client object with a fresh uuid, then the send on hub.register
ServeWsNew ==
    LET c == Len(conn) + 1
    IN  /\ Running
        /\ nEvents < MaxEvents
        /\ nEvents' = nEvents + 1
        /\ conn' = Append(conn, 1)
        /\ send' = Append(send, <<>>)
        /\ closed' = Append(closed, FALSE)
        /\ undeliveredMsg' = Append(undeliveredMsg, <<>>)
        /\ serve' = Append(serve, [IdleServe EXCEPT !.pc = "register"])
        /\ alive' = alive @@ (<<c, 1>> :> TRUE)
        /\ log' = LogNew
        /\ UNCHANGED taskVars
        /\ UNCHANGED <<clients, rooms, readers, writers, hub, panicked, nAdded, held>>

\* the reconnect branch without the call of sendUndeliveredMsg
ServeWsReconnectNoReplay(c) ==
    /\ Running
    /\ c \in clients
    /\ serve[c].pc = "idle"
    /\ nEvents < MaxEvents
    /\ nEvents' = nEvents + 1
    /\ conn' = [conn EXCEPT ![c] = conn[c] + 1]
    /\ alive' = alive @@ (<<c, conn[c] + 1>> :> TRUE)
    /\ serve' = [serve EXCEPT ![c] =
                   [pc |-> "register", todo |-> undeliveredMsg[c], replayed |-> <<>>]]
    /\ UNCHANGED taskVars
    /\ UNCHANGED <<clients, rooms, send, closed, undeliveredMsg, readers,
                   writers, hub, panicked, nAdded, held, log>>

\* serveWs, reconnect branch up to the range statement of sendUndeliveredMsg:
\* hub.clients[clientID] != nil, client.conn = conn
ServeWsReconnect(c) ==
    /\ Running
    /\ c \in clients
    /\ serve[c].pc = "idle"
    /\ nEvents < MaxEvents
    /\ nEvents' = nEvents + 1
    /\ conn' = [conn EXCEPT ![c] = conn[c] + 1]
    /\ alive' = alive @@ (<<c, conn[c] + 1>> :> TRUE)
    /\ serve' = [serve EXCEPT ![c] =
                   [pc |-> IF undeliveredMsg[c] = <<>> THEN "register" ELSE "flush",
                    todo |-> undeliveredMsg[c], replayed |-> <<>>]]
    /\ UNCHANGED taskVars
    /\ UNCHANGED <<clients, rooms, send, closed, undeliveredMsg, readers,
                   writers, hub, panicked, nAdded, held, log>>

\* Client.sendUndeliveredMsg: one c.send <- msg of the loop; after the last
\* one the backlog is cleared
ServeWsFlush(c) ==
    /\ Running
    /\ c \in Client
    /\ serve[c].pc = "flush"
    /\ IF closed[c]
       THEN /\ panicked' = "sendUndeliveredMsg: send on closed channel"
            /\ UNCHANGED <<send, log, serve, undeliveredMsg>>
       ELSE /\ Len(send[c]) < SendCap
            /\ send' = [send EXCEPT ![c] = Append(send[c], Head(serve[c].todo))]
            /\ log' = LogSent(c, Head(serve[c].todo))
            /\ serve' = [serve EXCEPT ![c] =
                  [pc |-> IF Tail(@.todo) = <<>> THEN "register" ELSE "flush",
                   todo |-> Tail(@.todo),
                   replayed |-> Append(@.replayed, Head(@.todo))]]
            /\ undeliveredMsg' = [undeliveredMsg EXCEPT ![c] =
                  IF Tail(serve[c].todo) = <<>> THEN <<>> ELSE @]
            /\ UNCHANGED panicked
    /\ UNCHANGED taskVars
    /\ UNCHANGED <<clients, rooms, closed, conn, alive, readers, writers, hub,
                   nEvents, nAdded, held>>

\* client.hub.register <- client received by Hub.Run (case client :=
\* <-h.register), then go client.writePump(); go client.readPump()
HubRegister(c) ==
    /\ Running
    /\ c \in Client
    /\ serve[c].pc = "register"
    /\ hub.pc = "select"
    /\ clients' = clients \cup {c}
    /\ serve' = [serve EXCEPT ![c].pc = "idle"]
    /\ readers' = readers @@ (<<c, conn[c]>> :> Reading)
    /\ writers' = writers @@ (<<c, conn[c]>> :> "run")
    /\ held' = held @@ (<<c, conn[c]>> :> NoMsg)
    /\ UNCHANGED taskVars
    /\ UNCHANGED <<rooms, send, closed, undeliveredMsg, conn, alive, hub,
                   panicked, nEvents, nAdded, log>>

\* the peer or the network ends transport g of c
BreakTransport(c, g) ==
    /\ Running
    /\ <<c, g>> \in Transport
    /\ alive[<<c, g>>]
    /\ nEvents < MaxEvents
    /\ nEvents' = nEvents + 1
    /\ alive' = [alive EXCEPT ![<<c, g>>] = FALSE]
    /\ UNCHANGED taskVars
    /\ UNCHANGED <<clients, rooms, send, closed, undeliveredMsg, conn, readers,
                   writers, serve, hub, panicked, nAdded, held, log>>

\* --------------------------------------------------------------- readPump
\* c.conn.ReadMessage() returns an error: break, then the deferred function
\* blocks on c.hub.unregister <- c
ReadError(c, g) ==
    /\ Running
    /\ <<c, g>> \in Pump
    /\ readers[<<c, g>>].pc = "read"
    /\ ~alive[<<c, g>>]
    /\ readers' = [readers EXCEPT ![<<c, g>>].pc = "unreg"]
    /\ UNCHANGED taskVars
    /\ UNCHANGED <<clients, rooms, send, closed, undeliveredMsg, conn, alive,
                   writers, serve, hub, panicked, nEvents, nAdded, held, log>>

\* A range over a map does not produce an entry that is deleted before the
\* loop reaches it: when d is deleted from the map that the loops at pc are
\* ranging over (the room arg, or h.clients for a private message), d
\* leaves their remaining entries.  The head is the entry the loop has
\* already taken and is sending to.
Unreached(pc, arg, d) ==
    [p \in Pump |->
        IF /\ readers[p].pc = pc
           /\ pc = "roomsend" => readers[p].arg = arg
        THEN [readers[p] EXCEPT !.todo =
                <<Head(@)>> \o SelectSeq(Tail(@), LAMBDA x : x # d)]
        ELSE readers[p]]

\* clients, ok := h.rooms[roomName] with a room that is absent treated as
\* the set of every registered connection
roomClientsOrEveryone(rs, roomName) ==
    IF roomName \in DOMAIN rs THEN rs[roomName] ELSE clients

\* clients, ok := h.rooms[roomName] of handleRoomBroadcast: the members
\* the range loop runs over, none when the room is absent
roomClients(rs, roomName) ==
    IF roomName \in DOMAIN rs THEN rs[roomName] ELSE {}

\* c.conn.ReadMessage() returns frame f, and the switch up to the first
\* channel send of the selected case
ReadFrame(c, g, f) ==
    /\ Running
    /\ <<c, g>> \in Pump
    /\ readers[<<c, g>>].pc = "read"
    /\ alive[<<c, g>>]
    /\ nEvents < MaxEvents
    /\ nEvents' = nEvents + 1
    /\ CASE f.prefix = "join_room:" ->
              /\ rooms' = HandleJoinRoom(rooms, c, f.arg)
              /\ readers' = [readers EXCEPT ![<<c, g>>] =
                    [pc |-> "reply", msg |-> "join_room_success:" \o f.arg,
                     arg |-> f.arg, todo |-> <<>>]]
              /\ UNCHANGED panicked
         [] f.prefix = "leave_room:" ->
              /\ rooms' = handleLeaveRoom(rooms, c, f.arg)
              /\ readers' = [Unreached("roomsend", f.arg, c) EXCEPT ![<<c, g>>] =
                    [pc |-> "reply", msg |-> "leave_room_success:" \o f.arg,
                     arg |-> f.arg, todo |-> <<>>]]
              /\ UNCHANGED panicked
         [] f.prefix = "room_message:" ->
              IF f.body = NoBody
              THEN /\ panicked' = "readPump: index out of range"
                   /\ UNCHANGED <<rooms, readers>>
              ELSE /\ \E order \in Orders(roomClients(rooms, f.arg)) :
                        readers' = [readers EXCEPT ![<<c, g>>] =
                           IF order = <<>>
                           THEN Reading
                           ELSE [pc |-> "roomsend", msg |-> f.body, arg |-> f.arg,
                                 todo |-> order]]
                   /\ UNCHANGED <<rooms, panicked>>
         [] f.prefix = "private_message:" ->
              IF f.body = NoBody
              THEN /\ panicked' = "readPump: index out of range"
                   /\ UNCHANGED <<rooms, readers>>
              ELSE /\ \E order \in Orders({d \in clients : ClientName(d) = f.arg}) :
                        readers' = [readers EXCEPT ![<<c, g>>] =
                           IF order = <<>>
                           THEN Reading
                           ELSE [pc |-> "privsend", msg |-> f.body, arg |-> f.arg,
                                 todo |-> order]]
                   /\ UNCHANGED <<rooms, panicked>>
         [] OTHER ->
              /\ readers' = [readers EXCEPT ![<<c, g>>] =
                    [pc |-> "bcast", msg |-> f.body, arg |-> "", todo |-> <<>>]]
              /\ UNCHANGED <<rooms, panicked>>
    /\ UNCHANGED taskVars
    /\ UNCHANGED <<clients, send, closed, undeliveredMsg, conn, alive, writers,
                   serve, hub, nAdded, held, log>>

\* c.send <- []byte("join_room_success:" + roomName), and the same for leave
ReadPumpReply(c, g) ==
    /\ Running
    /\ <<c, g>> \in Pump
    /\ readers[<<c, g>>].pc = "reply"
    /\ IF closed[c]
       THEN /\ panicked' = "readPump: send on closed channel"
            /\ UNCHANGED <<send, log, readers>>
       ELSE /\ Len(send[c]) < SendCap
            /\ send' = [send EXCEPT ![c] = Append(send[c], readers[<<c, g>>].msg)]
            /\ log' = LogSent(c, readers[<<c, g>>].msg)
            /\ readers' = [readers EXCEPT ![<<c, g>>] =
                             Reading]
            /\ UNCHANGED panicked
    /\ UNCHANGED taskVars
    /\ UNCHANGED <<clients, rooms, closed, undeliveredMsg, conn, alive, writers,
                   serve, hub, nEvents, nAdded, held>>

\* one client.send <- message of the range loop of a fan-out that runs on
\* the read loop's goroutine
FanOutSend(c, g, site) ==
    LET d == Head(readers[<<c, g>>].todo)
        rest == Tail(readers[<<c, g>>].todo)
    IN  IF closed[d]
        THEN /\ panicked' = site \o ": send on closed channel"
             /\ UNCHANGED <<send, log, readers>>
        ELSE /\ Len(send[d]) < SendCap
             /\ send' = [send EXCEPT ![d] = Append(send[d], readers[<<c, g>>].msg)]
             /\ log' = LogSent(d, readers[<<c, g>>].msg)
             /\ readers' = [readers EXCEPT ![<<c, g>>] =
                   IF rest = <<>>
                   THEN Reading
                   ELSE [readers[<<c, g>>] EXCEPT !.todo = rest]]
             /\ UNCHANGED panicked

\* Hub.handleRoomBroadcast, called by readPump
handleRoomBroadcast(c, g) ==
    /\ Running
    /\ <<c, g>> \in Pump
    /\ readers[<<c, g>>].pc = "roomsend"
    /\ FanOutSend(c, g, "handleRoomBroadcast")
    /\ UNCHANGED taskVars
    /\ UNCHANGED <<clients, rooms, closed, undeliveredMsg, conn, alive, writers,
                   serve, hub, nEvents, nAdded, held>>

\* Hub.handlePrivateMessage, called by readPump
handlePrivateMessage(c, g) ==
    /\ Running
    /\ <<c, g>> \in Pump
    /\ readers[<<c, g>>].pc = "privsend"
    /\ FanOutSend(c, g, "handlePrivateMessage")
    /\ UNCHANGED taskVars
    /\ UNCHANGED <<clients, rooms, closed, undeliveredMsg, conn, alive, writers,
                   serve, hub, nEvents, nAdded, held>>

\* ---------------------------------------------------------------- Hub.Run
\* the unregister case without the test that the connection is in the table
HubUnregisterNoTest(c, g) ==
    /\ Running
    /\ <<c, g>> \in Pump
    /\ readers[<<c, g>>].pc = "unreg"
    /\ hub.pc = "select"
    /\ clients' = clients \ {c}
    /\ IF closed[c]
       THEN /\ panicked' = "Run: close of closed channel"
            /\ UNCHANGED <<closed, readers, alive>>
       ELSE /\ closed' = [closed EXCEPT ![c] = TRUE]
            /\ readers' = [Unreached("privsend", "", c)
                              EXCEPT ![<<c, g>>].pc = "done"]
            /\ alive' = [alive EXCEPT ![<<c, conn[c]>>] = FALSE]
            /\ UNCHANGED panicked
    /\ UNCHANGED taskVars
    /\ UNCHANGED <<rooms, send, undeliveredMsg, conn, writers, serve, hub,
                   nEvents, nAdded, held, log>>

\* case client := <-h.unregister, sent by the deferred function of the
\* readPump of transport g, which then runs c.conn.Close()
HubUnregister(c, g) ==
    /\ Running
    /\ <<c, g>> \in Pump
    /\ readers[<<c, g>>].pc = "unreg"
    /\ hub.pc = "select"
    /\ IF c \in clients
       THEN /\ clients' = clients \ {c}
            /\ IF closed[c]
               THEN /\ panicked' = "Run: close of closed channel"
                    /\ UNCHANGED <<closed, readers, alive>>
               ELSE /\ closed' = [closed EXCEPT ![c] = TRUE]
                    /\ readers' = [Unreached("privsend", "", c)
                                      EXCEPT ![<<c, g>>].pc = "done"]
                    /\ alive' = [alive EXCEPT ![<<c, conn[c]>>] = FALSE]
                    /\ UNCHANGED panicked
       ELSE /\ readers' = [readers EXCEPT ![<<c, g>>].pc = "done"]
            /\ alive' = [alive EXCEPT ![<<c, conn[c]>>] = FALSE]
            /\ UNCHANGED <<clients, closed, panicked>>
    /\ UNCHANGED taskVars
    /\ UNCHANGED <<rooms, send, undeliveredMsg, conn, writers, serve, hub,
                   nEvents, nAdded, held, log>>

\* case message := <-h.broadcast, sent by the default case of readPump; the
\* range over h.clients starts
HubBroadcast(c, g) ==
    /\ Running
    /\ <<c, g>> \in Pump
    /\ readers[<<c, g>>].pc = "bcast"
    /\ hub.pc = "select"
    /\ \E order \in Orders(clients) :
          hub' = IF order = <<>> THEN IdleHub
                 ELSE [pc |-> "bcast", todo |-> order, msg |-> readers[<<c, g>>].msg]
    /\ readers' = [readers EXCEPT ![<<c, g>>] =
                     Reading]
    /\ UNCHANGED taskVars
    /\ UNCHANGED <<clients, rooms, send, closed, undeliveredMsg, conn, alive,
                   writers, serve, panicked, nEvents, nAdded, held, log>>

\* one client.send <- message of the broadcast case
HubBroadcastSend ==
    /\ Running
    /\ hub.pc = "bcast"
    /\ LET d == Head(hub.todo)
           rest == Tail(hub.todo)
       IN  IF closed[d]
           THEN /\ panicked' = "Run: send on closed channel"
                /\ UNCHANGED <<send, log, hub>>
           ELSE /\ Len(send[d]) < SendCap
                /\ send' = [send EXCEPT ![d] = Append(send[d], hub.msg)]
                /\ log' = LogSent(d, hub.msg)
                /\ hub' = IF rest = <<>> THEN IdleHub
                          ELSE [hub EXCEPT !.todo = rest]
                /\ UNCHANGED panicked
    /\ UNCHANGED taskVars
    /\ UNCHANGED <<clients, rooms, closed, undeliveredMsg, conn, alive, readers,
                   writers, serve, nEvents, nAdded, held>>

\* -------------------------------------------------------------- writePump
\* case message, ok := <-c.send with ok: the receive takes the head of the
\* queue (a closed channel still yields what is buffered)
WriteReceive(c, g) ==
    /\ Running
    /\ <<c, g>> \in Pump
    /\ writers[<<c, g>>] = "run"
    /\ send[c] # <<>>
    /\ held' = [held EXCEPT ![<<c, g>>] = Head(send[c])]
    /\ send' = [send EXCEPT ![c] = Tail(send[c])]
    /\ writers' = [writers EXCEPT ![<<c, g>>] = "write"]
    /\ UNCHANGED taskVars
    /\ UNCHANGED <<clients, rooms, closed, undeliveredMsg, conn, alive, readers,
                   serve, hub, panicked, nEvents, nAdded, log>>

\* NextWriter and w.Close() succeed: the message and everything queued
\* behind it go out in one transport write on c.conn
WriteMessages(c, g) ==
    /\ Running
    /\ <<c, g>> \in Pump
    /\ writers[<<c, g>>] = "write"
    /\ alive[<<c, conn[c]>>]
    /\ log' = LogWire(c, <<held[<<c, g>>]>> \o send[c])
    /\ send' = [send EXCEPT ![c] = <<>>]
    /\ held' = [held EXCEPT ![<<c, g>>] = NoMsg]
    /\ writers' = [writers EXCEPT ![<<c, g>>] = "run"]
    /\ UNCHANGED taskVars
    /\ UNCHANGED <<clients, rooms, closed, undeliveredMsg, conn, alive, readers,
                   serve, hub, panicked, nEvents, nAdded>>

\* NextWriter fails: the message goes to the backlog and the loop returns
WriteFailNextWriter(c, g) ==
    /\ Running
    /\ <<c, g>> \in Pump
    /\ writers[<<c, g>>] = "write"
    /\ ~alive[<<c, conn[c]>>]
    /\ undeliveredMsg' = [undeliveredMsg EXCEPT ![c] =
                            addUndeliveredMsg(undeliveredMsg[c], held[<<c, g>>])]
    /\ held' = [held EXCEPT ![<<c, g>>] = NoMsg]
    /\ writers' = [writers EXCEPT ![<<c, g>>] = "done"]
    /\ UNCHANGED taskVars
    /\ UNCHANGED <<clients, rooms, send, closed, conn, alive, readers, serve, hub,
                   panicked, nEvents, nAdded, log>>

\* NextWriter succeeds, the queued messages are coalesced, w.Close() fails:
\* the loop returns
WriteFailClose(c, g) ==
    /\ Running
    /\ <<c, g>> \in Pump
    /\ writers[<<c, g>>] = "write"
    /\ ~alive[<<c, conn[c]>>]
    /\ send' = [send EXCEPT ![c] = <<>>]
    /\ held' = [held EXCEPT ![<<c, g>>] = NoMsg]
    /\ writers' = [writers EXCEPT ![<<c, g>>] = "done"]
    /\ UNCHANGED taskVars
    /\ UNCHANGED <<clients, rooms, closed, undeliveredMsg, conn, alive, readers,
                   serve, hub, panicked, nEvents, nAdded, log>>

\* message, ok := <-c.send with !ok (closed and drained): close frame,
\* return, and the deferred c.conn.Close()
WriteChannelClosed(c, g) ==
    /\ Running
    /\ <<c, g>> \in Pump
    /\ writers[<<c, g>>] = "run"
    /\ send[c] = <<>>
    /\ closed[c]
    /\ writers' = [writers EXCEPT ![<<c, g>>] = "done"]
    /\ alive' = [alive EXCEPT ![<<c, conn[c]>>] = FALSE]
    /\ UNCHANGED taskVars
    /\ UNCHANGED <<clients, rooms, send, closed, undeliveredMsg, conn, readers,
                   serve, hub, panicked, nEvents, nAdded, held, log>>

\* case <-ticker.C with a failing ping: return
WritePingFail(c, g) ==
    /\ Running
    /\ <<c, g>> \in Pump
    /\ writers[<<c, g>>] = "run"
    /\ ~alive[<<c, conn[c]>>]
    /\ writers' = [writers EXCEPT ![<<c, g>>] = "done"]
    /\ UNCHANGED taskVars
    /\ UNCHANGED <<clients, rooms, send, closed, undeliveredMsg, conn, alive,
                   readers, serve, hub, panicked, nEvents, nAdded, held, log>>

Next ==
    \/ ServeWsNew
    \/ \E c \in Client : ServeWsReconnect(c)
    \/ \E c \in Client : ServeWsFlush(c)
    \/ \E c \in Client : HubRegister(c)
    \/ \E p \in Transport : BreakTransport(p[1], p[2])
    \/ \E p \in Pump : ReadError(p[1], p[2])
    \/ \E p \in Pump, f \in Frame : ReadFrame(p[1], p[2], f)
    \/ \E p \in Pump : ReadPumpReply(p[1], p[2])
    \/ \E p \in Pump : handleRoomBroadcast(p[1], p[2])
    \/ \E p \in Pump : handlePrivateMessage(p[1], p[2])
    \/ \E p \in Pump : HubUnregister(p[1], p[2])
    \/ \E p \in Pump : HubBroadcast(p[1], p[2])
    \/ HubBroadcastSend
    \/ \E p \in Pump : WriteReceive(p[1], p[2])
    \/ \E p \in Pump : WriteMessages(p[1], p[2])
    \/ \E p \in Pump : WriteFailNextWriter(p[1], p[2])
    \/ \E p \in Pump : WriteFailClose(p[1], p[2])
    \/ \E p \in Pump : WriteChannelClosed(p[1], p[2])
    \/ \E p \in Pump : WritePingFail(p[1], p[2])

Spec == Init /\ [][Next]_vars

\* ------------------------------------------------ the hub with its history
\* NewWsServer, with the payloads put on each queue and written to each
\* transport recorded from the start
InitWire ==
    /\ clients = {}
    /\ rooms = [r \in {} |-> {}]
    /\ send = <<>>
    /\ closed = <<>>
    /\ undeliveredMsg = <<>>
    /\ conn = <<>>
    /\ serve = <<>>
    /\ alive = [p \in {} |-> TRUE]
    /\ readers = [p \in {} |-> Reading]
    /\ writers = [p \in {} |-> "run"]
    /\ hub = IdleHub
    /\ panicked = "none"
    /\ nEvents = 0
    /\ nAdded = 0
    /\ held = [p \in {} |-> NoMsg]
    /\ log = [on |-> TRUE, sent |-> <<>>, wire |-> <<>>]
    /\ NoTaskManager

SpecWire == InitWire /\ [][Next]_vars

\* the steps taken by the Hub.Run goroutine
HubStep ==
    \/ \E c \in Client : HubRegister(c)
    \/ \E p \in Pump : HubUnregister(p[1], p[2])
    \/ \E p \in Pump : HubBroadcast(p[1], p[2])
    \/ HubBroadcastSend

\* ------------------------------------------------ a shorter event budget
\* The same server from the same start, with one event of the budget taken
\* away: the behaviours of Spec that have at most MaxEvents - 1 connections,
\* frames and transport failures.
InitShort ==
    /\ clients = {}
    /\ rooms = [r \in {} |-> {}]
    /\ send = <<>>
    /\ closed = <<>>
    /\ undeliveredMsg = <<>>
    /\ conn = <<>>
    /\ serve = <<>>
    /\ alive = [p \in {} |-> TRUE]
    /\ readers = [p \in {} |-> Reading]
    /\ writers = [p \in {} |-> "run"]
    /\ hub = IdleHub
    /\ panicked = "none"
    /\ nEvents = 1
    /\ nAdded = 0
    /\ held = [p \in {} |-> NoMsg]
    /\ log = [on |-> FALSE, sent |-> <<>>, wire |-> <<>>]
    /\ NoTaskManager

SpecShort == InitShort /\ [][Next]_vars

\* the steps of the read loops that need nothing from the peer
ReadPumpStep ==
    \/ \E p \in Pump : ReadError(p[1], p[2])
    \/ \E p \in Pump : ReadPumpReply(p[1], p[2])
    \/ \E p \in Pump : handleRoomBroadcast(p[1], p[2])
    \/ \E p \in Pump : handlePrivateMessage(p[1], p[2])

\* the steps of the write loops
WritePumpStep ==
    \/ \E p \in Pump : WriteReceive(p[1], p[2])
    \/ \E p \in Pump : WriteMessages(p[1], p[2])
    \/ \E p \in Pump : WriteFailNextWriter(p[1], p[2])
    \/ \E p \in Pump : WriteFailClose(p[1], p[2])
    \/ \E p \in Pump : WriteChannelClosed(p[1], p[2])
    \/ \E p \in Pump : WritePingFail(p[1], p[2])

\* the Go scheduler runs every goroutine that can take a step: the hub, the
\* read loops, the write loops and the replay of serveWs; what the peers do
\* (connect, send a frame, drop a transport) is under no obligation
FairSpec ==
    /\ Spec
    /\ WF_vars(HubStep)
    /\ WF_vars(ReadPumpStep)
    /\ WF_vars(WritePumpStep)
    /\ WF_vars(\E c \in Client : ServeWsFlush(c))

\* ------------------------------------------------- the rooms on their own
\* the join_room: and leave_room: frames
RoomFrame == {f \in Frame : f.prefix \in {"join_room:", "leave_room:"}}

\* MaxPeers connections are registered, on their first transport, with their
\* pumps running; nothing has been read yet and the history is recorded
InitRooms ==
    /\ clients = 1..MaxPeers
    /\ rooms = [r \in {} |-> {}]
    /\ send = [c \in 1..MaxPeers |-> <<>>]
    /\ closed = [c \in 1..MaxPeers |-> FALSE]
    /\ undeliveredMsg = [c \in 1..MaxPeers |-> <<>>]
    /\ conn = [c \in 1..MaxPeers |-> 1]
    /\ serve = [c \in 1..MaxPeers |-> IdleServe]
    /\ alive = [p \in (1..MaxPeers) \X {1} |-> TRUE]
    /\ readers = [p \in (1..MaxPeers) \X {1} |-> Reading]
    /\ writers = [p \in (1..MaxPeers) \X {1} |-> "run"]
    /\ hub = IdleHub
    /\ panicked = "none"
    /\ nEvents = MaxPeers
    /\ nAdded = 0
    /\ held = [p \in (1..MaxPeers) \X {1} |-> NoMsg]
    /\ log = [on |-> TRUE,
              sent |-> [c \in 1..MaxPeers |-> <<>>],
              wire |-> [c \in 1..MaxPeers |-> <<>>]]
    /\ NoTaskManager

\* the peers send join_room: and leave_room: frames only; the confirmations
\* are queued and written
NextRooms ==
    \/ \E p \in Pump, f \in RoomFrame : ReadFrame(p[1], p[2], f)
    \/ \E p \in Pump : ReadPumpReply(p[1], p[2])
    \/ \E p \in Pump : WriteReceive(p[1], p[2])
    \/ \E p \in Pump : WriteMessages(p[1], p[2])

SpecRooms == InitRooms /\ [][NextRooms]_vars

\* the same connections, with room messages as well as joins and leaves
RoomMessageFrame == {f \in Frame : f.prefix = "room_message:" /\ f.body # NoBody}

NextRoomMessages ==
    \/ NextRooms
    \/ \E p \in Pump, f \in RoomMessageFrame : ReadFrame(p[1], p[2], f)
    \/ \E p \in Pump : handleRoomBroadcast(p[1], p[2])

SpecRoomMessages == InitRooms /\ [][NextRoomMessages]_vars

\* ------------------------------------------------ the backlog on its own
\* Client.addUndeliveredMsg applied to the arrivals 1, 2, 3, ... of one
\* connection that stays disconnected
InitBacklog ==
    /\ clients = {1}
    /\ rooms = [r \in {} |-> {}]
    /\ send = <<(<<>>)>>
    /\ closed = <<FALSE>>
    /\ undeliveredMsg = <<(<<>>)>>
    /\ conn = <<1>>
    /\ serve = <<IdleServe>>
    /\ alive = (<<1, 1>> :> FALSE)
    /\ readers = (<<1, 1>> :> Reading)
    /\ writers = (<<1, 1>> :> "run")
    /\ hub = IdleHub
    /\ panicked = "none"
    /\ nEvents = 0
    /\ nAdded = 0
    /\ held = (<<1, 1>> :> NoMsg)
    /\ log = [on |-> FALSE, sent |-> <<>>, wire |-> <<>>]
    /\ NoTaskManager

AddUndelivered(c) ==
    /\ c \in Client
    /\ nAdded < MaxAdds
    /\ nAdded' = nAdded + 1
    /\ undeliveredMsg' = [undeliveredMsg EXCEPT ![c] =
                            addUndeliveredMsg(undeliveredMsg[c], nAdded + 1)]
    /\ UNCHANGED taskVars
    /\ UNCHANGED <<clients, rooms, send, closed, conn, alive, readers, writers,
                   serve, hub, panicked, nEvents, held, log>>

NextBacklog == \E c \in Client : AddUndelivered(c)

SpecBacklog == InitBacklog /\ [][NextBacklog]_vars

\* ============================================================ TaskManager
\* NewTaskBuilder(mode, workerCount) followed by Add for every task: a
\* manager with up to MaxTasks tasks and a positive worker count, and the
\* context of the call, with or without a deadline; the hub is not running
InitTasks ==
    /\ clients = {}
    /\ rooms = [r \in {} |-> {}]
    /\ send = <<>>
    /\ closed = <<>>
    /\ undeliveredMsg = <<>>
    /\ conn = <<>>
    /\ serve = <<>>
    /\ alive = [p \in {} |-> TRUE]
    /\ readers = [p \in {} |-> Reading]
    /\ writers = [p \in {} |-> "run"]
    /\ hub = IdleHub
    /\ panicked = "none"
    /\ nEvents = 0
    /\ nAdded = 0
    /\ held = [p \in {} |-> NoMsg]
    /\ log = [on |-> FALSE, sent |-> <<>>, wire |-> <<>>]
    /\ \E n \in 0..MaxTasks :
          \E kinds \in [1..n -> TaskKind], mode \in {"Parallel", "Sequential"},
             count \in 1..MaxWorkers :
             tm = [tasks |-> kinds, mode |-> mode, workerCount |-> count]
    /\ ctx \in [deadline : BOOLEAN, done : {FALSE}]
    /\ run = [pc |-> "call", i |-> 0]
    /\ worker = <<>>
    /\ collector = [pc |-> "none", res |-> NoResult]
    /\ pool = [taskChanClosed |-> FALSE, resultChanClosed |-> FALSE]
    /\ errChan = [buf |-> <<>>, closed |-> FALSE]
    /\ results = <<>>
    /\ outcome = [i \in DOMAIN tm.tasks |-> NotRun]
    /\ ret = NoReturn
    /\ taskPanic = "none"

NumTasks == Len(tm.tasks)
Worker == DOMAIN worker
TasksRunning == taskPanic = "none"

\* the deadline of the context passes
CtxDone ==
    /\ TasksRunning
    /\ ctx.deadline
    /\ ~ctx.done
    /\ ctx' = [ctx EXCEPT !.done = TRUE]
    /\ UNCHANGED <<tm, run, worker, collector, pool, errChan, results, outcome,
                   ret, taskPanic>>
    /\ UNCHANGED hubVars

\* TaskManager.Run: runSequential up to its loop, or runParallel up to the
\* loop that submits: NewWorkerPool, the results slice, errChan, and
\* pool.Run, which starts workerCount goroutines
Run ==
    /\ TasksRunning
    /\ run.pc = "call"
    /\ results' = [i \in 1..NumTasks |-> Nil]
    /\ IF tm.mode = "Parallel"
       THEN /\ worker' = [w \in 1..tm.workerCount |->
                            [pc |-> "range", task |-> 0, res |-> NoResult]]
            /\ run' = [pc |-> "submit", i |-> 1]
       ELSE /\ run' = [pc |-> "sequential", i |-> 1]
            /\ UNCHANGED worker
    /\ UNCHANGED <<tm, ctx, collector, pool, errChan, outcome, ret, taskPanic>>
    /\ UNCHANGED hubVars

\* pool.Submit(task), wp.taskChan <- task, taken by worker w in its
\* for task := range wp.taskChan: the channel has no buffer, so the send
\* and the receive are one step
Submit(w) ==
    /\ TasksRunning
    /\ run.pc = "submit"
    /\ run.i <= NumTasks
    /\ w \in Worker
    /\ worker[w].pc = "range"
    /\ ~pool.taskChanClosed
    /\ worker' = [worker EXCEPT ![w] = [pc |-> "select", task |-> run.i,
                                        res |-> NoResult]]
    /\ run' = [run EXCEPT !.i = run.i + 1]
    /\ UNCHANGED <<tm, ctx, collector, pool, errChan, results, outcome, ret,
                   taskPanic>>
    /\ UNCHANGED hubVars

\* the select of the worker: case <-ctx.Done() returns, with the deferred
\* wp.wg.Done(); default goes on to task.Execute(ctx)
WorkerSelect(w) ==
    /\ TasksRunning
    /\ w \in Worker
    /\ worker[w].pc = "select"
    /\ worker' = [worker EXCEPT ![w].pc = IF ctx.done THEN "done" ELSE "execute"]
    /\ UNCHANGED <<tm, ctx, run, collector, pool, errChan, results, outcome, ret,
                   taskPanic>>
    /\ UNCHANGED hubVars

\* output, err := task.Execute(ctx) returns in worker w
WorkerExecute(w) ==
    /\ TasksRunning
    /\ w \in Worker
    /\ worker[w].pc = "execute"
    /\ LET res == Execute(worker[w].task, ctx.done)
       IN  /\ worker' = [worker EXCEPT ![w] = [@ EXCEPT !.pc = "result", !.res = res]]
           /\ outcome' = [outcome EXCEPT ![worker[w].task] = res.err]
    /\ UNCHANGED <<tm, ctx, run, collector, pool, errChan, results, ret, taskPanic>>
    /\ UNCHANGED hubVars

\* wp.resultChan <- result{...} of worker w, taken by the collector in its
\* for res := range pool.Results(): no buffer, one step
WorkerResult(w) ==
    /\ TasksRunning
    /\ w \in Worker
    /\ worker[w].pc = "result"
    /\ collector.pc = "range"
    /\ ~pool.resultChanClosed
    /\ collector' = [pc |-> "handle", res |-> worker[w].res]
    /\ worker' = [worker EXCEPT ![w] = [pc |-> "range", task |-> 0, res |-> NoResult]]
    /\ UNCHANGED <<tm, ctx, run, pool, errChan, results, outcome, ret, taskPanic>>
    /\ UNCHANGED hubVars

\* for task := range wp.taskChan ends in worker w because the channel is
\* closed; the deferred wp.wg.Done()
WorkerRangeEnds(w) ==
    /\ TasksRunning
    /\ w \in Worker
    /\ worker[w].pc = "range"
    /\ pool.taskChanClosed
    /\ worker' = [worker EXCEPT ![w].pc = "done"]
    /\ UNCHANGED <<tm, ctx, run, collector, pool, errChan, results, outcome, ret,
                   taskPanic>>
    /\ UNCHANGED hubVars

\* the go statement of runParallel that starts the collector, after the
\* last Submit has returned
StartCollector ==
    /\ TasksRunning
    /\ run.pc = "submit"
    /\ run.i > NumTasks
    /\ collector' = [pc |-> "range", res |-> NoResult]
    /\ run' = [run EXCEPT !.pc = "stop"]
    /\ UNCHANGED <<tm, ctx, worker, pool, errChan, results, outcome, ret, taskPanic>>
    /\ UNCHANGED hubVars

\* the body of the collector's loop for one result, under mu: a result with
\* an error goes to errChan if its buffer of one has room, one without is
\* stored at its index
CollectorHandle ==
    /\ TasksRunning
    /\ collector.pc = "handle"
    /\ LET res == collector.res
       IN  IF res.err # Nil
           THEN IF errChan.closed
                THEN /\ taskPanic' = "runParallel: send on closed channel"
                     /\ UNCHANGED <<errChan, results, collector>>
                ELSE /\ errChan' = IF Len(errChan.buf) < 1
                                   THEN [errChan EXCEPT !.buf = Append(@, res.err)]
                                   ELSE errChan
                     /\ collector' = [pc |-> "range", res |-> NoResult]
                     /\ UNCHANGED <<results, taskPanic>>
           ELSE /\ results' = [results EXCEPT ![res.index] = res.output]
                /\ collector' = [pc |-> "range", res |-> NoResult]
                /\ UNCHANGED <<errChan, taskPanic>>
    /\ UNCHANGED <<tm, ctx, run, worker, pool, outcome, ret>>
    /\ UNCHANGED hubVars

\* for res := range pool.Results() ends because resultChan is closed; the
\* collector closes doneChan, which nothing receives from
CollectorRangeEnds ==
    /\ TasksRunning
    /\ collector.pc = "range"
    /\ pool.resultChanClosed
    /\ collector' = [collector EXCEPT !.pc = "done"]
    /\ UNCHANGED <<tm, ctx, run, worker, pool, errChan, results, outcome, ret,
                   taskPanic>>
    /\ UNCHANGED hubVars

\* pool.Stop(): close(wp.taskChan)
StopCloseTaskChan ==
    /\ TasksRunning
    /\ run.pc = "stop"
    /\ pool' = [pool EXCEPT !.taskChanClosed = TRUE]
    /\ run' = [run EXCEPT !.pc = "wait"]
    /\ UNCHANGED <<tm, ctx, worker, collector, errChan, results, outcome, ret,
                   taskPanic>>
    /\ UNCHANGED hubVars

\* pool.Stop(): wp.wg.Wait() returns when every worker has returned, then
\* close(wp.resultChan) under once
StopWait ==
    /\ TasksRunning
    /\ run.pc = "wait"
    /\ \A w \in Worker : worker[w].pc = "done"
    /\ pool' = [pool EXCEPT !.resultChanClosed = TRUE]
    /\ run' = [run EXCEPT !.pc = "closeErr"]
    /\ UNCHANGED <<tm, ctx, worker, collector, errChan, results, outcome, ret,
                   taskPanic>>
    /\ UNCHANGED hubVars

\* close(errChan) of runParallel
CloseErrChan ==
    /\ TasksRunning
    /\ run.pc = "closeErr"
    /\ errChan' = [errChan EXCEPT !.closed = TRUE]
    /\ run' = [run EXCEPT !.pc = "check"]
    /\ UNCHANGED <<tm, ctx, worker, collector, pool, results, outcome, ret,
                   taskPanic>>
    /\ UNCHANGED hubVars

\* the last select of runParallel: case err := <-errChan can proceed when
\* the buffer holds an error or the channel is closed, and a closed, empty
\* channel yields nil; default is taken only when the case cannot proceed
ReturnParallel ==
    /\ TasksRunning
    /\ run.pc = "check"
    /\ IF errChan.buf # <<>>
       THEN /\ ret' = [returned |-> TRUE, nilResults |-> TRUE, results |-> <<>>,
                       err |-> Head(errChan.buf)]
            /\ errChan' = [errChan EXCEPT !.buf = Tail(@)]
       ELSE IF errChan.closed
            THEN /\ ret' = [returned |-> TRUE, nilResults |-> TRUE,
                            results |-> <<>>, err |-> Nil]
                 /\ UNCHANGED errChan
            ELSE /\ ret' = [returned |-> TRUE, nilResults |-> FALSE,
                            results |-> results, err |-> Nil]
                 /\ UNCHANGED errChan
    /\ run' = [run EXCEPT !.pc = "returned"]
    /\ UNCHANGED <<tm, ctx, worker, collector, pool, results, outcome, taskPanic>>
    /\ UNCHANGED hubVars

\* one iteration of the loop of runSequential: task.Execute(ctx) returns;
\* an error is returned at once with nil results, a result is stored
SequentialExecute ==
    /\ TasksRunning
    /\ run.pc = "sequential"
    /\ run.i <= NumTasks
    /\ LET res == Execute(run.i, ctx.done)
       IN  /\ outcome' = [outcome EXCEPT ![run.i] = res.err]
           /\ IF res.err # Nil
              THEN /\ ret' = [returned |-> TRUE, nilResults |-> TRUE,
                              results |-> <<>>, err |-> res.err]
                   /\ run' = [run EXCEPT !.pc = "returned"]
                   /\ UNCHANGED results
              ELSE /\ results' = [results EXCEPT ![run.i] = res.output]
                   /\ run' = [run EXCEPT !.i = run.i + 1]
                   /\ UNCHANGED ret
    /\ UNCHANGED <<tm, ctx, worker, collector, pool, errChan, taskPanic>>
    /\ UNCHANGED hubVars

\* return results, nil of runSequential
ReturnSequential ==
    /\ TasksRunning
    /\ run.pc = "sequential"
    /\ run.i > NumTasks
    /\ ret' = [returned |-> TRUE, nilResults |-> FALSE, results |-> results,
               err |-> Nil]
    /\ run' = [run EXCEPT !.pc = "returned"]
    /\ UNCHANGED <<tm, ctx, worker, collector, pool, errChan, results, outcome,
                   taskPanic>>
    /\ UNCHANGED hubVars

\* the steps of the goroutines of Run
TaskStep ==
    \/ Run
    \/ \E w \in Worker : Submit(w)
    \/ \E w \in Worker : WorkerSelect(w)
    \/ \E w \in Worker : WorkerExecute(w)
    \/ \E w \in Worker : WorkerResult(w)
    \/ \E w \in Worker : WorkerRangeEnds(w)
    \/ StartCollector
    \/ CollectorHandle
    \/ CollectorRangeEnds
    \/ StopCloseTaskChan
    \/ StopWait
    \/ CloseErrChan
    \/ ReturnParallel
    \/ SequentialExecute
    \/ ReturnSequential

NextTasks ==
    \/ CtxDone
    \/ TaskStep

SpecTasks == InitTasks /\ [][NextTasks]_vars

\* ------------------------------------ the revision with a goroutine per task
\* runParallel of internal/core/concurrency/concurrency.go has no worker
\* pool: one goroutine per task, an errChan with room for every task, and
\* wg.Wait() before the results are read.  worker[i] is the goroutine of
\* task i.
\* TaskManager.Run of that revision, up to wg.Wait() in Parallel mode
RunPerTask ==
    /\ TasksRunning
    /\ run.pc = "call"
    /\ results' = [i \in 1..NumTasks |-> Nil]
    /\ IF tm.mode = "Parallel"
       THEN /\ worker' = [i \in 1..NumTasks |->
                            [pc |-> "execute", task |-> i, res |-> NoResult]]
            /\ run' = [pc |-> "wgWait", i |-> 0]
       ELSE /\ run' = [pc |-> "sequential", i |-> 1]
            /\ UNCHANGED worker
    /\ UNCHANGED <<tm, ctx, collector, pool, errChan, outcome, ret, taskPanic>>
    /\ UNCHANGED hubVars

\* the goroutine of task i: t.Execute(ctx) returns; an error goes to
\* errChan, a result to results[i]; the deferred wg.Done()
TaskGoroutine(i) ==
    /\ TasksRunning
    /\ i \in Worker
    /\ run.pc = "wgWait"
    /\ worker[i].pc = "execute"
    /\ LET res == Execute(i, ctx.done)
       IN  /\ outcome' = [outcome EXCEPT ![i] = res.err]
           /\ worker' = [worker EXCEPT ![i] = [@ EXCEPT !.pc = "done", !.res = res]]
           /\ IF res.err # Nil
              THEN /\ errChan' = [errChan EXCEPT !.buf = Append(@, res.err)]
                   /\ UNCHANGED results
              ELSE /\ results' = [results EXCEPT ![i] = res.output]
                   /\ UNCHANGED errChan
    /\ UNCHANGED <<tm, ctx, run, collector, pool, ret, taskPanic>>
    /\ UNCHANGED hubVars

\* wg.Wait() returns, close(errChan), and the test of len(errChan)
ReturnPerTask ==
    /\ TasksRunning
    /\ run.pc = "wgWait"
    /\ \A i \in Worker : worker[i].pc = "done"
    /\ IF Len(errChan.buf) > 0
       THEN /\ ret' = [returned |-> TRUE, nilResults |-> TRUE, results |-> <<>>,
                       err |-> Head(errChan.buf)]
            /\ errChan' = [buf |-> Tail(errChan.buf), closed |-> TRUE]
       ELSE /\ ret' = [returned |-> TRUE, nilResults |-> FALSE,
                       results |-> results, err |-> Nil]
            /\ errChan' = [errChan EXCEPT !.closed = TRUE]
    /\ run' = [run EXCEPT !.pc = "returned"]
    /\ UNCHANGED <<tm, ctx, worker, collector, pool, results, outcome, taskPanic>>
    /\ UNCHANGED hubVars

NextPerTask ==
    \/ CtxDone
    \/ RunPerTask
    \/ \E i \in Worker : TaskGoroutine(i)
    \/ ReturnPerTask
    \/ SequentialExecute
    \/ ReturnSequential

SpecPerTask == InitTasks /\ [][NextPerTask]_vars

\* ================================================================ claims

\* C1: every member of a room is in the connection table.
NoDanglingMember ==
    \A r \in DOMAIN rooms : rooms[r] \subseteq clients

\* C2: when the hub processes Unregister(conn) for a registered connection,
\* conn is afterwards in no table entry and in no room, and its outbound
\* queue is closed.
UnregisterRemovesEverywhere ==
    [][\A c \in Client : \A g \in 1..conn[c] :
          (HubUnregister(c, g) /\ c \in clients) =>
             /\ c \notin clients'
             /\ \A r \in DOMAIN rooms' : c \notin rooms'[r]
             /\ closed'[c]]_vars

\* C3: each send of a room_message to a member A of the room puts the
\* message on A's outbound queue, and the queue of a connection that is not
\* a member of the room does not change.
RoomIsolation ==
    [][\A c \in Client : \A g \in 1..conn[c] :
          handleRoomBroadcast(c, g) =>
             LET a == Head(readers[<<c, g>>].todo)
                 R == readers[<<c, g>>].arg
             IN  /\ send'[a] = Append(send[a], readers[<<c, g>>].msg)
                 /\ \A b \in Client :
                       (R \notin DOMAIN rooms \/ b \notin rooms[R]) =>
                          send'[b] = send[b]]_vars

\* the hub is inside the broadcast case, sending to a connection whose queue
\* is full and open and that has no write loop left to drain it; no write
\* loop can start for it either, since serveWs starts one only after the hub
\* has taken its register request
HubBlockedForever ==
    /\ Running
    /\ hub.pc = "bcast"
    /\ LET d == Head(hub.todo)
       IN  /\ ~closed[d]
           /\ Len(send[d]) = SendCap
           /\ \A p \in Pump : p[1] = d => writers[p] = "done"

\* C4: the hub never stops in the middle of a broadcast that it still owes
\* to a registered connection whose queue is open and has room.
BroadcastCompleteness ==
    ~(/\ HubBlockedForever
      /\ \E i \in 2..Len(hub.todo) :
            LET e == hub.todo[i]
            IN  e \in clients /\ ~closed[e] /\ Len(send[e]) < SendCap)

\* C5: each step of the replay after a reconnection puts the next message
\* of the backlog, in order, on the outbound queue, and the backlog is empty
\* after the last one.
ReconnectionReplay ==
    [][\A c \in Client :
          (serve[c].pc = "flush" /\ ServeWsFlush(c)) =>
             /\ send'[c] = Append(send[c], Head(serve[c].todo))
             /\ serve'[c].todo = Tail(serve[c].todo)
             /\ Tail(serve[c].todo) = <<>> => undeliveredMsg'[c] = <<>>]_vars

\* C6: the hub is never stuck on a connection whose queue is full.
HubNeverBlocked == ~HubBlockedForever

\* C7: the connection table and the room table change only in steps of the
\* hub goroutine.
OnlyHubMutatesTables ==
    [][(clients' # clients \/ rooms' # rooms) => HubStep]_vars

\* C8: when the hub registers a connection whose identity is already in the
\* table, the table keeps its single entry for it, every room keeps its
\* members, the whole backlog has been replayed, and the pumps of the new
\* transport start.
RegisterReplacesInPlace ==
    [][\A c \in Client :
          (HubRegister(c) /\ c \in clients) =>
             /\ clients' = clients
             /\ rooms' = rooms
             /\ serve[c].todo = <<>>
             /\ conn[c] > 1 /\ conn'[c] = conn[c]
             /\ readers'[<<c, conn[c]>>].pc = "read"
             /\ writers'[<<c, conn[c]>>] = "run"]_vars

\* C8, witness: the connection that joined lobby is registered again on its
\* second transport, still in lobby, after its backlog was replayed
ReconnectedInPlace ==
    \E c \in Client :
       /\ Running
       /\ conn[c] = 2
       /\ serve[c].pc = "idle"
       /\ serve[c].replayed = <<"join_room_success:lobby">>
       /\ readers[<<c, 2>>].pc = "read"
       /\ writers[<<c, 2>>] = "run"
       /\ c \in clients
       /\ "lobby" \in DOMAIN rooms /\ c \in rooms["lobby"]
       /\ undeliveredMsg[c] = <<>>

\* C9: the unregister request of the read loop of a stale transport changes
\* neither the table entry nor the outbound queue nor the current transport
\* of the connection.
StaleTeardownHarmless ==
    [][\A c \in Client : \A g \in 1..conn[c] :
          (HubUnregister(c, g) /\ g < conn[c]) =>
             /\ clients' = clients
             /\ closed' = closed
             /\ alive'[<<c, conn[c]>>] = alive[<<c, conn[c]>>]]_vars

\* C10: the backlog never holds more than maxUndeliveredMsg messages, and
\* it is the most recent ones in arrival order.
BacklogBounded ==
    \A c \in Client :
       /\ Len(undeliveredMsg[c]) <= maxUndeliveredMsg
       /\ undeliveredMsg[c] # <<>> =>
            LET n == IF nAdded < maxUndeliveredMsg THEN nAdded
                     ELSE maxUndeliveredMsg
            IN  undeliveredMsg[c] = [i \in 1..n |-> nAdded - n + i]

\* C10, witness: more than maxUndeliveredMsg arrivals, the oldest evicted
BacklogEvicted ==
    \E c \in Client :
       /\ nAdded > maxUndeliveredMsg
       /\ Len(undeliveredMsg[c]) = maxUndeliveredMsg
       /\ Head(undeliveredMsg[c]) = nAdded - maxUndeliveredMsg + 1

\* s can be obtained from t by leaving elements out
RECURSIVE IsSubSeq(_, _)
IsSubSeq(s, t) ==
    IF s = <<>> THEN TRUE
    ELSE IF t = <<>> THEN FALSE
    ELSE IF Head(s) = Head(t) THEN IsSubSeq(Tail(s), Tail(t))
    ELSE IsSubSeq(s, Tail(t))

\* C11: for every connection, the payloads written to its transport are,
\* in order and without repetition, payloads that were put on its outbound
\* queue in that order.
PerConnectionFIFO ==
    \A c \in DOMAIN log.wire : IsSubSeq(log.wire[c], log.sent[c])

UnregisterIdempotent ==
    [][\A c \in Client : \A g \in 1..conn[c] :
          (HubUnregister(c, g) /\ c \notin clients) =>
             /\ clients' = clients
             /\ rooms' = rooms
             /\ send' = send
             /\ closed' = closed
             /\ panicked' = "none"]_vars

\* C14, witness: the read loops of both transports of a connection have had
\* their unregister requests taken; the first removed it and closed its
\* queue, the second found it absent, and the process runs
UnregisteredTwice ==
    \E c \in Client :
       /\ Running
       /\ <<c, 1>> \in Pump /\ readers[<<c, 1>>].pc = "done"
       /\ <<c, 2>> \in Pump /\ readers[<<c, 2>>].pc = "done"
       /\ c \notin clients
       /\ closed[c]

\* C15: when the broadcast case of the hub has reached a connection whose
\* queue is full, the hub can go on to the next connection of the range, and
\* that step leaves every queue, the closed flags and the connection table
\* as they are.
BroadcastSkipsFull ==
    (/\ Running
     /\ hub.pc = "bcast"
     /\ ~closed[Head(hub.todo)]
     /\ Len(send[Head(hub.todo)]) = SendCap) =>
        ENABLED (/\ HubBroadcastSend
                 /\ send' = send
                 /\ closed' = closed
                 /\ clients' = clients
                 /\ hub' = IF Tail(hub.todo) = <<>> THEN IdleHub
                           ELSE [hub EXCEPT !.todo = Tail(hub.todo)])

\* C16: reading a room_message: or private_message: frame that has no body
\* changes no queue and no table, the process keeps running, the sender
\* stays registered as it was and its read loop goes on to the next frame,
\* its write loops untouched.
MalformedFrameDropped ==
    [][\A p \in Pump, f \in Frame :
          (f.body = NoBody /\ f.prefix \in {"room_message:", "private_message:"}
             /\ ReadFrame(p[1], p[2], f)) =>
             /\ panicked' = "none"
             /\ send' = send
             /\ clients' = clients
             /\ rooms' = rooms
             /\ readers'[p].pc = "read"
             /\ writers' = writers]_vars

\* C17: a read loop that has left its loop on a read error and is sending
\* its unregister request is eventually done, with its connection out of the
\* connection table, unless the process has ended by then.
TeardownCompletes ==
    \A c \in 1..MaxEvents, g \in 1..MaxEvents :
       (<<c, g>> \in Pump /\ readers[<<c, g>>].pc = "unreg") ~>
          \/ <<c, g>> \in Pump /\ readers[<<c, g>>].pc = "done" /\ c \notin clients
          \/ ~Running

\* C18: a private message to a name is enqueued to the registered
\* connections of that name and to no other: every send of the scan of
\* handlePrivateMessage appends the payload to the queue of a registered
\* connection whose name is the target and changes no other queue and no
\* table; a private message to a name that no registered connection has
\* changes no queue and no table and the read loop goes on reading.
SendToNameExact ==
    [][\A p \in Pump :
          /\ handlePrivateMessage(p[1], p[2]) =>
                LET d == Head(readers[p].todo)
                IN  /\ ClientName(d) = readers[p].arg
                    /\ d \in clients
                    /\ send' = [send EXCEPT ![d] = Append(@, readers[p].msg)]
                    /\ UNCHANGED <<clients, rooms, closed>>
          /\ \A f \in Frame :
                (/\ ReadFrame(p[1], p[2], f)
                 /\ f.prefix = "private_message:"
                 /\ f.body # NoBody
                 /\ {d \in clients : ClientName(d) = f.arg} = {}) =>
                    /\ UNCHANGED <<send, clients, rooms, closed, panicked>>
                    /\ readers'[p] = Reading]_vars

\* C19: the sender of a room message is not echoed: with the sender c and
\* another connection both registered and both members of the room, no send
\* of the scan that handleRoomBroadcast runs for the room message of c
\* changes the queue of c itself; it appends the payload to the queue of
\* another member.
RoomSenderNotEchoed ==
    [][\A p \in Pump :
          (/\ handleRoomBroadcast(p[1], p[2])
           /\ readers[p].arg \in DOMAIN rooms
           /\ p[1] \in rooms[readers[p].arg] \cap clients
           /\ (rooms[readers[p].arg] \cap clients) \ {p[1]} # {}) =>
             /\ Head(readers[p].todo) # p[1]
             /\ send'[p[1]] = send[p[1]]]_vars

\* C20: a private message to root reaches the one peer connected as root
\* and no other: with the sender c and at least one other connection
\* registered, the scan that handlePrivateMessage runs for the
\* private_message:root of c sends to one connection only, and never to c.
PrivateToRootOnly ==
    [][\A p \in Pump :
          (/\ handlePrivateMessage(p[1], p[2])
           /\ readers[p].arg = "root"
           /\ p[1] \in clients
           /\ clients \ {p[1]} # {}) =>
             /\ Len(readers[p].todo) = 1
             /\ Head(readers[p].todo) # p[1]
             /\ send'[p[1]] = send[p[1]]]_vars

\* C21: the reply to a join_room or leave_room frame of connection c is
\* enqueued once, to c only, after the room table has been changed: the
\* step that sends the confirmation appends it to the queue of c and changes
\* no other queue, and, c having one read loop only, it finds c a member of
\* the room after a join and not a member after a leave.
JoinLeaveConfirmed ==
    [][\A p \in Pump :
          ReadPumpReply(p[1], p[2]) =>
             LET m == readers[p].msg
                 r == readers[p].arg
                 member == r \in DOMAIN rooms /\ p[1] \in rooms[r]
             IN  /\ send' = [send EXCEPT ![p[1]] = Append(@, m)]
                 /\ readers'[p] = Reading
                 /\ conn[p[1]] = 1 =>
                       /\ m = "join_room_success:" \o r => member
                       /\ m = "leave_room_success:" \o r => ~member]_vars

\* C22: a room message to a room that is not in the room table is a no-op:
\* the step that reads it enqueues nothing, creates no room, changes no
\* table and no queue, raises nothing, and the read loop goes on reading.
SendToAbsentRoomIsNoOp ==
    [][\A p \in Pump, f \in Frame :
          (/\ f.prefix = "room_message:"
           /\ f.body # NoBody
           /\ f.arg \notin DOMAIN rooms
           /\ ReadFrame(p[1], p[2], f)) =>
             /\ UNCHANGED <<send, closed, rooms, clients, panicked, log>>
             /\ readers'[p] = Reading]_vars

\* C22, witness: one frame has been read since the connections were set
\* up, nothing was ever enqueued and there is no room: the frame was a room
\* message to lobby, which does not exist, and every read loop is reading
SentToAbsentRoom ==
    /\ nEvents = MaxPeers + 1
    /\ \A c \in Client : log.sent[c] = <<>>
    /\ DOMAIN rooms = {}
    /\ clients = Client
    /\ \A p \in Pump : readers[p] = Reading
    /\ panicked = "none"

\* C23: the outbound queue of a connection has one consumer: at most one
\* write loop of a connection is running at any time, reconnections
\* included.
SingleConsumer ==
    \A c \in Client :
       Cardinality({g \in 1..conn[c] :
                      <<c, g>> \in Pump /\ writers[<<c, g>>] # "done"}) <= 1

\* C27: no payload is sent to an outbound queue that has been closed: no
\* broadcast, room message, private message, join or leave confirmation or
\* backlog replay ever runs its send on a closed Client.send.
NoSendOnClosed ==
    panicked \notin {site \o ": send on closed channel" :
                       site \in {"Run", "handleRoomBroadcast", "handlePrivateMessage",
                                 "readPump", "sendUndeliveredMsg"}}

\* C28: the outbound queue of a connection is closed at most once: no
\* close(client.send) ever runs on a queue that is closed already.
ClosedAtMostOnce ==
    panicked # "Run: close of closed channel"

\* C29: no payload is lost on a write failure: when a write loop that has
\* dequeued payloads returns without having written them, the payload it
\* received and the queued payloads it took for the same transport write
\* are the last entries of the connection's backlog, in their order.
NoLossOnWriteFailure ==
    [][\A p \in Pump :
          (writers[p] = "write" /\ writers'[p] = "done") =>
             LET c == p[1]
                 taken == <<held[p]>> \o
                             (IF send'[c] = send[c] THEN <<>> ELSE send[c])
                 q == undeliveredMsg'[c]
             IN  /\ Len(q) >= Len(taken)
                 /\ SubSeq(q, Len(q) - Len(taken) + 1, Len(q)) = taken]_vars

\* C24: when Run in Parallel mode returns after every task has returned its
\* result without an error, it returns no error and a result slice whose
\* element i is the result of the i-th task added.
ParallelResultsInOrder ==
    (/\ ret.returned
     /\ tm.mode = "Parallel"
     /\ \A i \in 1..NumTasks : outcome[i] = Nil) =>
        /\ ret.err = Nil
        /\ \A i \in 1..NumTasks :
              ~ret.nilResults /\ ret.results[i] = Result(i)

\* C25: when Run returns, in Parallel or in Sequential mode, after at least
\* one task has returned an error, it returns nil results and the error of
\* one of the tasks that failed.
ErrorIsReturned ==
    LET failed == {i \in 1..NumTasks : outcome[i] \notin {Nil, NotRun}}
    IN  (ret.returned /\ failed # {}) =>
           /\ ret.nilResults
           /\ ret.err \in {outcome[i] : i \in failed}

\* C26: when the context is done before every task has returned its result,
\* Run returns nil results and the context's error, in Parallel and in
\* Sequential mode, whether a task had been started or not; the tasks are
\* tasks that return their result unless the context is done first.
DeadlineIsReturned ==
    (/\ ret.returned
     /\ ctx.done
     /\ \A i \in 1..NumTasks : tm.tasks[i] = "delayed"
     /\ \E i \in 1..NumTasks : outcome[i] # Nil) =>
        /\ ret.nilResults
        /\ ret.err = DeadlineExceeded

\* C30: Run in Parallel mode terminates, without deadlock and without a send
\* on a closed channel: no goroutine of Run panics, and as long as Run has
\* not returned some goroutine of Run can take a step, whatever the number
\* of tasks, the worker count and the moment the context is done.
ParallelRunTerminates ==
    tm.mode = "Parallel" =>
       /\ taskPanic = "none"
       /\ run.pc \notin {"idle", "returned"} => ENABLED TaskStep

\* once the hub is blocked in this way it stays blocked
BlockedStaysBlocked == [][HubBlockedForever => HubBlockedForever']_vars
====
